---- MODULE Spec2Model ----
(***************************************************************************)
(* RA6963 graphic LCD controller facade (src/RA6963.py).                   *)
(*                                                                         *)
(* The state is the RA6963 object's fields plus a record of what the last  *)
(* method call did: the primitive calls it made on the parallel bus and    *)
(* the GPIO lines, in order, its return value and the error that ended it. *)
(* Every facade method is one action.                                      *)
(***************************************************************************)
EXTENDS Integers, Sequences, FiniteSets, TLC

VARIABLES
    addr,            \* self.addr: <<>> for None, else <<text, graphic, cg>>
    _pixx,           \* self._pixx
    _pixy,           \* self._pixy
    rd,              \* the RW/RD pin given to initialise(); out of 0..27 = unset
    dlow,            \* the pins <<d3, d2, d1, d0>> given to initialise()
    _bl,             \* self._bl: the backlight pin, out of 0..27 = no backlight
    _pwm,            \* self._pwm
    pwmchip,         \* os.path.isdir(PWMPATH)
    exported,        \* the channels n for which PWMPATH/pwm<n> is a directory
    _dev,            \* self._dev: the bus handle, "open" or "released"
    textaddress,     \* self.textaddress
    graphicaddress,  \* self.graphicaddress
    cgaddress,       \* self.cgaddress
    _displaymode,    \* self._displaymode
    _modeset,        \* self._modeset
    op,              \* the last method called: [name, args]
    bus,             \* the primitive calls the last method completed, in order
    ret,             \* what the last method returned: <<>> for None, else <<v>>
    err,             \* the error that ended the last method, or "none"
    warned,          \* the last method printed the CG address warning
    stale,           \* the last method called a bus primitive on a released handle
    repeat,          \* the last method is the same method as the one before it
    pre              \* the fields as they were when the last method was entered

vars == <<addr, _pixx, _pixy, rd, dlow, _bl, _pwm, pwmchip, exported, _dev, textaddress, graphicaddress, cgaddress,
          _displaymode, _modeset, op, bus, ret, err, warned, stale, repeat, pre>>

config == <<addr, _pixx, _pixy, rd, dlow, _bl, _pwm, pwmchip>>

-----------------------------------------------------------------------------
(* Bounds and input sets *)

\* longest glyph list given to definechars
MaxGlyphs == 2
\* longest block given to readdata / writedata
MaxData == 2

\* the addr argument of the constructor (<<>> is None)
Addrs == {<<>>, <<512, 8192, 4099>>, <<768, 12288, 6144>>}
\* the rd argument of the constructor (-1 is the default, unset)
RdPins == {-1, 7}
\* arguments of settexthome / setgraphichome / setaddress
HomeValues == {1024, 65280}
\* bytes the chip returns to a read, and bytes the caller writes
ByteValues == {0, 165}
\* what a call of writecommand evaluates to (no restype is declared)
CommandResults == {0, -1, 97}
\* glyphs: a 64-bit value as four 16-bit limbs, most significant first
Glyphs == {<<65409, 33153, 33153, 33279>>, <<258, 772, 1286, 1800>>}
\* a call through a released handle either still works or faults
Outcomes == {"works", "fault"}
\* arguments of setcursor
Coordinates == {3, 200}
\* location argument of definechars
Locations == {0, 1, 127}
\* num / patt arguments of the single commands
Numbers == {1, 5}
\* mode argument of modeset
Modes == {1, 2, 3, 4}
\* text argument of writetext, as character codes: "H\ni" and a tab
Texts == {<<72, 10, 105>>, <<9>>}
\* the Python major versions the module is run with
Interpreters == {2, 3}

-----------------------------------------------------------------------------
(* Command opcodes and option bits, src/RA6963.py:116-155 *)

LCD_SETCURSORPOINTER      == 33     \* 0x21
LCD_SETOFFSETREGISTER     == 34     \* 0x22
LCD_SETADDRESSPOINTER     == 36     \* 0x24
LCD_SETTEXTHOMEADDRESS    == 64     \* 0x40
LCD_SETTEXTAREA           == 65     \* 0x41
LCD_SETGRAPHICHOMEADDRESS == 66     \* 0x42
LCD_SETGRAPHICAREA        == 67     \* 0x43
LCD_MODESET               == 128    \* 0x80
LCD_DISPLAYMODE           == 144    \* 0x90
LCD_CURSORPATTERNSELECT   == 160    \* 0xA0
LCD_DATAWRITEINCREMENT    == 192    \* 0xC0
LCD_DATAREADINCREMENT     == 193    \* 0xC1
LCD_DATAWRITEDECREMENT    == 194    \* 0xC2
LCD_DATAEREADDECREMENT    == 194    \* 0xC2
LCD_DATAWRITENONVARIABLE  == 196    \* 0xC4
LCD_DATAREADNONVARIABLE   == 196    \* 0xC4
LCD_SETDATAAUTOWRITE      == 176    \* 0xB0
LCD_SETDATAAUTOREAD       == 177    \* 0xB1
LCD_AUTORESET             == 178    \* 0xB2
LCD_SCREENPEEK            == 224    \* 0xE0
LCD_SCREENCOPY            == 232    \* 0xE8
LCD_BITRESET              == 240    \* 0xF0
LCD_BITSET                == 248    \* 0xF8
LCD_SCREENREVERSE         == 208    \* 0xD0
LCD_BLINKTIME             == 80     \* 0x50
LCD_CURSORAUTOMOVING      == 96     \* 0x60
LCD_CGROMFONTSELECT       == 112    \* 0x70

LCD_OR                    == 0
LCD_EXOR                  == 1
LCD_AND                   == 3
LCD_TEXTATTRIBUTE         == 4
LCD_EXTERNALCGROM         == 8

LCD_CURSORBLINK           == 1
LCD_CURSORON              == 2
LCD_TEXTON                == 4
LCD_GRAPHICON             == 8

-----------------------------------------------------------------------------
(* Python's integer operators &, | and ~ (two's complement, unbounded) *)

RECURSIVE BitAnd(_, _)
BitAnd(a, b) ==
    IF a = 0 \/ b = 0 THEN 0
    ELSE IF a = -1 THEN b
    ELSE IF b = -1 THEN a
    ELSE (a % 2) * (b % 2) + 2 * BitAnd(a \div 2, b \div 2)

BitOr(a, b) == a + b - BitAnd(a, b)

BitNot(a) == -a - 1

(* ctypes conversions: no overflow check, the value is cut to the width *)

\* c_ubyte / c_uint8
c_uint8(v) == v % 256

\* (c_uint16.__ctype_le__ * 1)(v): the two bytes of the buffer
c_uint16_le(v) == <<v % 256, (v \div 256) % 256>>

\* (c_uint64.__ctype_be__ * 1)(i): the eight bytes of the buffer
c_uint64_be(g) ==
    <<g[1] \div 256, g[1] % 256, g[2] \div 256, g[2] % 256,
      g[3] \div 256, g[3] % 256, g[4] \div 256, g[4] % 256>>

-----------------------------------------------------------------------------
(* Primitive calls.  A buffer is the sequence of its bytes.  The fields of a
   record are written in the order TLC keeps them in, so that a record is in
   normal form from the start. *)

\* gpioWrite(self._rst, level)
gpioWrite(level) == [v |-> level, k |-> "gpio"]

\* gpioSetMode(self._rst, PI_OUTPUT)
gpioSetMode == [k |-> "mode"]

\* writecommand(self._dev, v)
writecommand(v) == [v |-> c_uint8(v), k |-> "cmd"]

\* the primitive writedata(self._dev, buf, n): n bytes are taken from a buffer of size bytes
parallel_writedata(buf, n) == [k |-> "wdata", buf |-> buf, n |-> n, size |-> Len(buf)]

\* numpy.zeros(shape=(size,), dtype=numpy.int8) given to writedata with length n
writedata_zeros(size, n) == [k |-> "wdata", buf |-> "zeros", n |-> n, size |-> size]

\* deinitialise(self._dev)
deinitialise == [k |-> "deinit"]

\* the bus was opened without a read line: it is write-only
WriteOnly == ~(rd >= 0 /\ rd <= 27)

\* the primitive readdata(self._dev, buf, n), the chip offering bytes: on a write-only bus
\* the primitive fails with UnsupportedOperation and transfers nothing
parallel_readdata(bytes, n) ==
    IF WriteOnly
    THEN [k |-> "rdata", buf |-> <<>>, n |-> n, status |-> "UnsupportedOperation"]
    ELSE [k |-> "rdata", buf |-> bytes, n |-> n, status |-> "ok"]

\* readregister(self._dev), the chip offering v
readregister(v) ==
    IF WriteOnly
    THEN [v |-> <<>>, k |-> "rreg", status |-> "UnsupportedOperation"]
    ELSE [v |-> <<v>>, k |-> "rreg", status |-> "ok"]

\* (c_uint8 * 1)() after readdata(self._dev, temp, 1): temp[0]
temp0(call) == IF call.status = "ok" THEN call.buf[1] ELSE 0

\* a GPIO number out of range is an undefined line
undefined_line(pin) == pin < 0 \/ pin > 27

\* initialise(d7, .., d0, ..): D3/D2/D1/D0 undefined -> 4-bit communication
fourbit == \A i \in 1..4 : undefined_line(dlow[i])

\* mutant: the low nibble goes first
strobes_low_first(byte) ==
    IF fourbit THEN <<byte % 16, byte \div 16>> ELSE <<byte>>

\* what the data lines carry at each enable pulse of one byte
strobes(byte) ==
    IF fourbit THEN <<byte \div 16, byte % 16>> ELSE <<byte>>

\* the bytes a writecommand or writedata call transfers
transferred(call) ==
    IF call.k = "cmd" THEN <<call.v>> ELSE SubSeq(call.buf, 1, call.n)

RECURSIVE pulses_of(_)
pulses_of(bytes) ==
    IF bytes = <<>> THEN <<>> ELSE strobes(Head(bytes)) \o pulses_of(Tail(bytes))

\* the enable pulses of one writecommand or writedata call
pulses(call) == pulses_of(transferred(call))

\* the calls that go through the bus handle
IsBusCall(c) == c.k \in {"cmd", "wdata", "rdata", "rreg", "deinit"}

\* a call through the released handle is undefined: it works as before, or
\* it faults and the process ends
UseAfterRelease(c, outcome) == IsBusCall(c) /\ _dev = "released" /\ outcome = "fault"

\* index of the first call of the method that faults, 0 when none does
FirstFault(calls, outcome) ==
    LET F == {i \in 1..Len(calls) : UseAfterRelease(calls[i], outcome)}
    IN  IF F = {} THEN 0 ELSE CHOOSE i \in F : \A j \in F : i <= j

\* run the calls of a method in order.  The method does not look at what a
\* primitive returns, so only a fault ends it early.
Exec(calls, outcome) ==
    LET f == FirstFault(calls, outcome)
        last == IF f = 0 THEN Len(calls) ELSE f
    IN  [bus   |-> IF f = 0 THEN calls ELSE SubSeq(calls, 1, f - 1),
         err   |-> IF f = 0 THEN "none" ELSE "fault",
         stale |-> _dev = "released" /\ \E i \in 1..last : IsBusCall(calls[i])]

\* a method that raises before its first primitive call
Raise(e) == [bus |-> <<>>, err |-> e, stale |-> FALSE]

\* the outcomes a method can meet: only a released handle has a choice
OutcomesNow == IF _dev = "released" THEN Outcomes ELSE {"works"}

fields == [exported |-> exported, _dev |-> _dev, textaddress |-> textaddress,
           graphicaddress |-> graphicaddress, cgaddress |-> cgaddress,
           _displaymode |-> _displaymode, _modeset |-> _modeset]

\* bookkeeping common to every method: what was called, what it did.
\* No method is called in a process that has faulted, nor on an object whose
\* constructor raised, and the constructor comes first.
Done(name, args, r, rv, w) ==
    /\ err /= "fault"
    /\ op.name = "__init__" => err = "none"
    /\ op.name = "new" <=> name = "__init__"
    /\ op' = [name |-> name, args |-> args]
    /\ bus' = r.bus
    /\ err' = r.err
    /\ ret' = IF r.err = "none" THEN rv ELSE <<>>
    /\ warned' = w
    /\ stale' = r.stale
    /\ repeat' = (op.name = name)
    /\ pre' = fields

\* a method that changes no field
Plain(name, args, calls, rv) ==
    \E outcome \in OutcomesNow :
        /\ Done(name, args, Exec(calls, outcome), rv, FALSE)
        /\ UNCHANGED <<config, exported, _dev, textaddress, graphicaddress, cgaddress,
                       _displaymode, _modeset>>

-----------------------------------------------------------------------------
(* startup, src/RA6963.py:217-254 *)

\* mutant: the text home is taken from the wrong element of addr
startup_textaddress_shifted == IF addr = <<>> THEN 0 ELSE addr[2]

\* mutant: the custom addresses are used up by one startup, the next one
\* falls back to the default
startup_textaddress_once ==
    IF op.name = "startup" THEN 0 ELSE IF addr = <<>> THEN 0 ELSE addr[1]

startup_textaddress == IF addr = <<>> THEN 0 ELSE addr[1]

startup_graphicaddress == IF addr = <<>> THEN 4096 ELSE addr[2]

startup_cgaddress == IF addr = <<>> THEN 30720 ELSE addr[3]

\* mutant: the test is for a multiple of 8
cg_misaligned_8(a) == BitAnd(a, 7) > 0

\* (self.cgaddress & 0x07FF) > 0
cg_misaligned(a) == BitAnd(a, 2047) > 0

\* mutant: round down to a multiple of 8 instead of 0x0800
cg_round_8(a) == BitAnd(a, 65528)

\* self.cgaddress & 0xF800
cg_round(a) == BitAnd(a, 63488)

\* self.cgaddress >> 11
cg_offset(a) == a \div 2048

\* mutant: the text area is set after the graphic home address
startup_calls_area_late(t, g, c) ==
    << gpioWrite(0), gpioWrite(1),
       parallel_writedata(c_uint16_le(t), 2), writecommand(LCD_SETTEXTHOMEADDRESS),
       parallel_writedata(c_uint16_le(g), 2), writecommand(LCD_SETGRAPHICHOMEADDRESS),
       parallel_writedata(c_uint16_le(_pixx \div 8), 2), writecommand(LCD_SETTEXTAREA),
       parallel_writedata(c_uint16_le(_pixx \div 8), 2), writecommand(LCD_SETGRAPHICAREA),
       parallel_writedata(c_uint16_le(cg_offset(c)), 2), writecommand(LCD_SETOFFSETREGISTER) >>

\* the calls of startup for text home t, graphic home g, stored cg address c
startup_calls(t, g, c) ==
    << gpioWrite(0), gpioWrite(1),
       parallel_writedata(c_uint16_le(t), 2), writecommand(LCD_SETTEXTHOMEADDRESS),
       parallel_writedata(c_uint16_le(_pixx \div 8), 2), writecommand(LCD_SETTEXTAREA),
       parallel_writedata(c_uint16_le(g), 2), writecommand(LCD_SETGRAPHICHOMEADDRESS),
       parallel_writedata(c_uint16_le(_pixx \div 8), 2), writecommand(LCD_SETGRAPHICAREA),
       parallel_writedata(c_uint16_le(cg_offset(c)), 2), writecommand(LCD_SETOFFSETREGISTER) >>

startup ==
    \E outcome \in OutcomesNow :
        LET t == startup_textaddress
            g == startup_graphicaddress
            c == startup_cgaddress
            cr == IF cg_misaligned(c) THEN cg_round(c) ELSE c
            r == Exec(startup_calls(t, g, cr), outcome)
            \* line 249 is reached once the first ten calls have returned
            reached == Len(r.bus) >= 10
        IN  /\ textaddress' = t
            /\ graphicaddress' = g
            /\ cgaddress' = IF reached THEN cr ELSE c
            /\ Done("startup", <<>>, r, <<>>, reached /\ cg_misaligned(c))
            /\ UNCHANGED <<config, exported, _dev, _displaymode, _modeset>>

(* __init__, src/RA6963.py:168-214: the state a constructed object is in *)

\* the state after RA6963(pixx, pixy, d7..d4, d3..d0 = low, rst, cd, wr, rd, addr=addr)
InitOpen(addrs, screens, rdpins, lows) ==
    /\ op = [name |-> "__init__", args |-> <<-1, 100, FALSE>>]
    /\ addr \in addrs
    /\ \E s \in screens : _pixx = s[1] /\ _pixy = s[2]
    /\ rd \in rdpins
    /\ dlow \in lows
    /\ _bl = -1
    /\ _pwm = FALSE
    /\ pwmchip = TRUE
    /\ exported = {}
    /\ _dev = "open"
    /\ _displaymode = 0
    /\ _modeset = 0
    /\ textaddress = startup_textaddress
    /\ graphicaddress = startup_graphicaddress
    /\ cgaddress = IF cg_misaligned(startup_cgaddress)
                   THEN cg_round(startup_cgaddress) ELSE startup_cgaddress
    /\ bus = <<gpioWrite(1), gpioSetMode>>
             \o startup_calls(textaddress, graphicaddress, cgaddress)
    /\ ret = <<>>
    /\ err = "none"
    /\ warned = cg_misaligned(startup_cgaddress)
    /\ stale = FALSE
    /\ repeat = FALSE
    /\ pre = fields

\* the same with all eight data lines defined
InitWith(addrs, screens, rdpins) == InitOpen(addrs, screens, rdpins, {<<22, 23, 24, 25>>})

(* Backlight, src/RA6963.py:187-209 and 422-432 *)

PWMPER == 100000
PI_OUTPUT == 1
PI_ALT0 == 4
PI_ALT5 == 2

\* bl>=0 and bl<=27
bl_valid(bl) == bl >= 0 /\ bl <= 27

\* gpioSetMode(bl, mode) and gpioWrite(bl, level) on the backlight pin
backlight_gpioSetMode(pin, mode) == [v |-> mode, k |-> "blmode", pin |-> pin]
backlight_gpioWrite(pin, level) == [v |-> level, k |-> "blgpio", pin |-> pin]

\* with open(PWMPATH + '/' + name, 'w') as f: f.write(v), for channel chan
file_write(name, chan, v) == [v |-> v, k |-> "file", name |-> name, chan |-> chan]

\* self._pwmchan, lines 194-195
pwmchan(bl) == IF bl = 12 \/ bl = 18 THEN 0 ELSE 1

\* mutant: a missing PWM directory does not disable the pin
bl_effective_keeps(bl, pwm) ==
    IF ~bl_valid(bl) \/ ~pwm THEN bl
    ELSE IF bl \in {12, 13, 18, 19} THEN bl
    ELSE -1

\* the value of bl stored in self._bl at line 207
bl_effective(bl, pwm) ==
    IF ~bl_valid(bl) \/ ~pwm THEN bl
    ELSE IF ~pwmchip THEN -1
    ELSE IF bl \in {12, 13, 18, 19} THEN bl
    ELSE -1

\* int(backlight*PWMPER), backlight given in hundredths
duty_cycle(backlight) == (backlight * PWMPER) \div 100

\* lines 188-206 of the constructor
init_backlight_calls(bl, pwm) ==
    IF ~bl_valid(bl) THEN <<>>
    ELSE IF ~pwm THEN <<backlight_gpioSetMode(bl, PI_OUTPUT)>>
    ELSE IF bl_effective(bl, pwm) = -1 THEN <<>>
    ELSE <<backlight_gpioSetMode(bl, IF bl = 12 \/ bl = 13 THEN PI_ALT0 ELSE PI_ALT5)>>
         \o (IF pwmchan(bl) \in exported THEN <<>>
             ELSE <<file_write("export", pwmchan(bl), pwmchan(bl))>>)
         \o <<file_write("period", pwmchan(bl), PWMPER)>>

\* setbacklight, src/RA6963.py:422-432, for self._bl = bl and self._pwm = pwm
setbacklight_calls(bl, pwm, backlight) ==
    IF ~bl_valid(bl) THEN <<>>
    ELSE IF ~pwm
         THEN <<backlight_gpioWrite(bl, IF backlight > 0 THEN 1 ELSE 0)>>
         ELSE IF backlight > 0
              THEN <<file_write("duty_cycle", pwmchan(bl), duty_cycle(backlight)),
                     file_write("enable", pwmchan(bl), 1)>>
              ELSE <<file_write("enable", pwmchan(bl), 0)>>

\* the channel directories after the calls
ExportedAfter(calls, before) ==
    (before \cup {calls[i].chan : i \in {j \in 1..Len(calls) :
                      calls[j].k = "file" /\ calls[j].name = "export"}})
    \ {calls[i].chan : i \in {j \in 1..Len(calls) :
                      calls[j].k = "file" /\ calls[j].name = "unexport"}}

\* the indices of the file writes among the calls
FileCalls(calls) == {i \in 1..Len(calls) : calls[i].k = "file"}

\* a file of a channel can only be opened while the channel is exported
NoSuchFile(calls, i) ==
    /\ calls[i].k = "file"
    /\ calls[i].name \notin {"export", "unexport"}
    /\ calls[i].chan \notin ExportedAfter(SubSeq(calls, 1, i - 1), exported)

\* run calls of which the fail-th file write raises (0: none is refused)
ExecIO(calls, outcome, fail) ==
    LET F == {i \in 1..Len(calls) :
                \/ UseAfterRelease(calls[i], outcome)
                \/ NoSuchFile(calls, i)
                \/ i \in FileCalls(calls)
                   /\ Cardinality({j \in FileCalls(calls) : j <= i}) = fail}
        f == IF F = {} THEN 0 ELSE CHOOSE i \in F : \A j \in F : i <= j
        last == IF f = 0 THEN Len(calls) ELSE f
    IN  [bus   |-> IF f = 0 THEN calls ELSE SubSeq(calls, 1, f - 1),
         err   |-> IF f = 0 THEN "none"
                   ELSE IF calls[f].k = "file" THEN "IOError" ELSE "fault",
         stale |-> _dev = "released" /\ \E i \in 1..last : IsBusCall(calls[i]),
         last  |-> last]

setbacklight(backlight) ==
    LET calls == setbacklight_calls(_bl, _pwm, backlight)
    IN  \E fail \in 0..Cardinality(FileCalls(calls)) :
            /\ Done("setbacklight", <<backlight>>, ExecIO(calls, "works", fail),
                    <<>>, FALSE)
            /\ UNCHANGED <<config, exported, _dev, textaddress, graphicaddress,
                           cgaddress, _displaymode, _modeset>>

(* __init__, src/RA6963.py:168-214, called with the arguments held in addr,
   _pixx, _pixy, rd and dlow and with bl, backlight and pwm *)

__init__(bl, backlight, pwm) ==
    LET ble == bl_effective(bl, pwm)
        t == startup_textaddress
        g == startup_graphicaddress
        c == startup_cgaddress
        cr == IF cg_misaligned(c) THEN cg_round(c) ELSE c
        calls == init_backlight_calls(bl, pwm)
                 \o (IF bl_valid(ble) THEN setbacklight_calls(ble, pwm, backlight)
                     ELSE <<>>)
                 \o <<gpioWrite(1), gpioSetMode>>
                 \o startup_calls(t, g, cr)
    IN  \E fail \in 0..Cardinality(FileCalls(calls)) :
            LET r == ExecIO(calls, "works", fail)
                ok == r.err = "none"
            IN  /\ _dev' = "open"
                /\ _bl' = ble
                /\ _pwm' = pwm
                /\ exported' = ExportedAfter(r.bus, exported)
                /\ textaddress' = IF ok THEN t ELSE textaddress
                /\ graphicaddress' = IF ok THEN g ELSE graphicaddress
                /\ cgaddress' = IF ok THEN cr ELSE cgaddress
                /\ Done("__init__", <<bl, backlight, pwm>>, r, <<>>,
                        ok /\ cg_misaligned(c))
                /\ UNCHANGED <<addr, _pixx, _pixy, rd, dlow, pwmchip,
                               _displaymode, _modeset>>

(* close, src/RA6963.py:257-261 *)

close_calls ==
    (IF bl_valid(_bl) /\ _pwm /\ pwmchan(_bl) \in exported
     THEN <<file_write("unexport", pwmchan(_bl), pwmchan(_bl))>> ELSE <<>>)
    \o <<deinitialise>>

close ==
    \E outcome \in OutcomesNow :
        \E fail \in 0..Cardinality(FileCalls(close_calls)) :
            LET r == ExecIO(close_calls, outcome, fail)
            IN  /\ _dev' = IF r.last = Len(close_calls) THEN "released" ELSE _dev
                /\ exported' = ExportedAfter(r.bus, exported)
                /\ Done("close", <<>>, r, <<>>, FALSE)
                /\ UNCHANGED <<config, textaddress, graphicaddress, cgaddress,
                               _displaymode, _modeset>>

-----------------------------------------------------------------------------
(* Address methods *)

\* mutant: the word goes out high byte first
word_calls_swapped(v, command) ==
    <<parallel_writedata(<<c_uint16_le(v)[2], c_uint16_le(v)[1]>>, 2), writecommand(command)>>

\* the (c_uint16 * 1) word v followed by the command
word_calls(v, command) == <<parallel_writedata(c_uint16_le(v), 2), writecommand(command)>>

\* settexthome, src/RA6963.py:441-445
settexthome(value) ==
    \E outcome \in OutcomesNow :
        /\ textaddress' = value
        /\ Done("settexthome", <<value>>,
                Exec(word_calls(value, LCD_SETTEXTHOMEADDRESS), outcome), <<>>, FALSE)
        /\ UNCHANGED <<config, exported, _dev, graphicaddress, cgaddress, _displaymode, _modeset>>

\* setgraphichome, src/RA6963.py:448-452
setgraphichome(value) ==
    \E outcome \in OutcomesNow :
        /\ graphicaddress' = value
        /\ Done("setgraphichome", <<value>>,
                Exec(word_calls(value, LCD_SETGRAPHICHOMEADDRESS), outcome), <<>>, FALSE)
        /\ UNCHANGED <<config, exported, _dev, textaddress, cgaddress, _displaymode, _modeset>>

\* texthome, src/RA6963.py:455-459
texthome ==
    Plain("texthome", <<>>, word_calls(textaddress, LCD_SETADDRESSPOINTER),
          <<textaddress>>)

\* graphichome, src/RA6963.py:352-356
graphichome ==
    Plain("graphichome", <<>>, word_calls(graphicaddress, LCD_SETADDRESSPOINTER),
          <<graphicaddress>>)

\* cghome, src/RA6963.py:278-282
cghome ==
    Plain("cghome", <<>>, word_calls(cgaddress, LCD_SETADDRESSPOINTER),
          <<cgaddress>>)

\* setaddress, src/RA6963.py:416-419
setaddress(value) ==
    Plain("setaddress", <<value>>, word_calls(value, LCD_SETADDRESSPOINTER), <<>>)

\* setcursor, src/RA6963.py:435-438: a two-word buffer, two bytes of it sent
\* mutant: the whole two-word array is sent
setcursor_calls_whole(xaddr, yaddr) ==
    <<parallel_writedata(c_uint16_le(256 * yaddr + xaddr) \o <<0, 0>>, 4),
      writecommand(LCD_SETCURSORPOINTER)>>

\* (c_uint16.__ctype_le__ * 2)(256*yaddr + xaddr): two words, the second zero
setcursor_calls(xaddr, yaddr) ==
    <<parallel_writedata(c_uint16_le(256 * yaddr + xaddr) \o <<0, 0>>, 2),
      writecommand(LCD_SETCURSORPOINTER)>>

setcursor(xaddr, yaddr) ==
    Plain("setcursor", <<xaddr, yaddr>>, setcursor_calls(xaddr, yaddr), <<>>)

\* mutant: the 128 predefined characters are not skipped
definechars_address_base(location) == cgaddress + location * 8

\* self.cgaddress+128*8 + location*8, src/RA6963.py:330
definechars_address(location) == cgaddress + 128 * 8 + location * 8

\* definechars, src/RA6963.py:329-335
definechars_calls(chars, location) ==
    word_calls(definechars_address(location), LCD_SETADDRESSPOINTER)
    \o <<writecommand(LCD_SETDATAAUTOWRITE)>>
    \o [i \in 1..Len(chars) |-> parallel_writedata(c_uint64_be(chars[i]), 8)]
    \o <<writecommand(LCD_AUTORESET)>>

definechars(chars, location) ==
    Plain("definechars", <<chars, location>>, definechars_calls(chars, location), <<>>)

\* clearall, src/RA6963.py:292-305
clearall_calls ==
    LET size == (_pixx * _pixy) \div 8
    IN  word_calls(graphicaddress, LCD_SETADDRESSPOINTER)
        \o <<writecommand(LCD_SETDATAAUTOWRITE),
             writedata_zeros(size, (_pixx * _pixy) \div 8),
             writecommand(LCD_AUTORESET)>>
        \o word_calls(textaddress, LCD_SETADDRESSPOINTER)
        \o <<writecommand(LCD_SETDATAAUTOWRITE),
             writedata_zeros(size, (_pixx * _pixy) \div 64),
             writecommand(LCD_AUTORESET)>>
        \o word_calls(cgaddress, LCD_SETADDRESSPOINTER)
        \o <<writecommand(LCD_SETDATAAUTOWRITE),
             writedata_zeros(size, 2048),
             writecommand(LCD_AUTORESET)>>

clearall == Plain("clearall", <<>>, clearall_calls, <<>>)

-----------------------------------------------------------------------------
(* Single commands *)

\* bitreset, src/RA6963.py:264-265
bitreset(num) ==
    Plain("bitreset", <<num>>, <<writecommand(BitOr(LCD_BITRESET, num))>>, <<>>)

\* bitset, src/RA6963.py:268-269
bitset(num) ==
    Plain("bitset", <<num>>, <<writecommand(BitOr(LCD_BITSET, num))>>, <<>>)

\* blinktime, src/RA6963.py:272-275
blinktime(num) ==
    Plain("blinktime", <<num>>, word_calls(num, LCD_BLINKTIME), <<>>)

\* cgromfont, src/RA6963.py:285-289
cgromfont(num) ==
    Plain("cgromfont", <<num>>,
          word_calls(IF num = 1 THEN 2 ELSE 3, LCD_CGROMFONTSELECT), <<>>)

\* cursorpattern, src/RA6963.py:325-326
cursorpattern(patt) ==
    Plain("cursorpattern", <<patt>>,
          <<writecommand(BitOr(LCD_CURSORPATTERNSELECT, patt))>>, <<>>)

\* screencopy, src/RA6963.py:400-401
screencopy == Plain("screencopy", <<>>, <<writecommand(LCD_SCREENCOPY)>>, <<>>)

\* screenreverse, src/RA6963.py:411-413: the two extra arguments are passed
\* on to a function that takes two, the command is the same either way
screenreverse(bool) ==
    Plain("screenreverse", <<bool>>, <<writecommand(LCD_SCREENREVERSE)>>, <<>>)

-----------------------------------------------------------------------------
(* Mode and flag setters *)

\* a method that stores the display-mode byte m and sends it
SetDisplayMode(name, args, m) ==
    \E outcome \in OutcomesNow :
        /\ _displaymode' = m
        /\ Done(name, args,
                Exec(<<writecommand(BitOr(LCD_DISPLAYMODE, m))>>, outcome), <<>>, FALSE)
        /\ UNCHANGED <<config, exported, _dev, textaddress, graphicaddress, cgaddress, _modeset>>

\* a method that stores the mode-set byte m and sends it
SetModeSet(name, args, m) ==
    \E outcome \in OutcomesNow :
        /\ _modeset' = m
        /\ Done(name, args,
                Exec(<<writecommand(BitOr(LCD_MODESET, m))>>, outcome), <<>>, FALSE)
        /\ UNCHANGED <<config, exported, _dev, textaddress, graphicaddress, cgaddress,
                       _displaymode>>

\* mutant: the blink flag replaces the byte instead of being merged into it
cursorblink_mode_overwrite(blink) == IF blink THEN LCD_CURSORBLINK ELSE 0

\* src/RA6963.py:309-310
cursorblink_mode(blink) ==
    IF blink THEN BitOr(_displaymode, LCD_CURSORBLINK)
    ELSE BitAnd(_displaymode, BitNot(LCD_CURSORBLINK))

\* cursorblink, src/RA6963.py:308-311
cursorblink(blink) == SetDisplayMode("cursorblink", <<blink>>, cursorblink_mode(blink))

\* src/RA6963.py:315-316
cursordisplay_mode(display) ==
    IF display THEN BitOr(_displaymode, LCD_CURSORON)
    ELSE BitAnd(_displaymode, BitNot(LCD_CURSORON))

\* cursordisplay, src/RA6963.py:314-317
cursordisplay(display) ==
    SetDisplayMode("cursordisplay", <<display>>, cursordisplay_mode(display))

\* src/RA6963.py:339-342
displaymode_mode(text, graphic) ==
    LET m == IF text THEN BitOr(_displaymode, LCD_TEXTON)
             ELSE BitAnd(_displaymode, BitNot(LCD_TEXTON))
    IN  IF graphic THEN BitOr(m, LCD_GRAPHICON)
        ELSE BitAnd(m, BitNot(LCD_GRAPHICON))

\* displaymode, src/RA6963.py:338-343
displaymode(text, graphic) ==
    SetDisplayMode("displaymode", <<text, graphic>>, displaymode_mode(text, graphic))

\* src/RA6963.py:347-348
externalcg_mode(bool) ==
    IF bool THEN BitOr(_modeset, LCD_EXTERNALCGROM)
    ELSE BitAnd(_modeset, BitNot(LCD_EXTERNALCGROM))

\* externalcg, src/RA6963.py:346-349
externalcg(bool) == SetModeSet("externalcg", <<bool>>, externalcg_mode(bool))

\* src/RA6963.py:360-364
modeset_mode(mode) ==
    LET m == BitAnd(_modeset,
                    BitNot(BitOr(BitOr(BitOr(LCD_OR, LCD_EXOR), LCD_AND),
                                 LCD_TEXTATTRIBUTE)))
    IN  IF mode = 1 THEN BitOr(m, LCD_OR)
        ELSE IF mode = 2 THEN BitOr(m, LCD_EXOR)
        ELSE IF mode = 3 THEN BitOr(m, LCD_AND)
        ELSE IF mode = 4 THEN BitOr(m, LCD_TEXTATTRIBUTE)
        ELSE m

\* modeset, src/RA6963.py:359-365
modeset(mode) == SetModeSet("modeset", <<mode>>, modeset_mode(mode))

\* cursormove, src/RA6963.py:320-322: the field is assigned what the call of
\* writecommand evaluates to
cursormove(move, result) ==
    \E outcome \in OutcomesNow :
        LET r == Exec(<<writecommand(BitOr(LCD_CURSORAUTOMOVING,
                                          IF move THEN 0 ELSE 1))>>, outcome)
        IN  /\ _displaymode' = IF r.err = "none" THEN result ELSE _displaymode
            /\ Done("cursormove", <<move>>, r, <<>>, FALSE)
            /\ UNCHANGED <<config, exported, _dev, textaddress, graphicaddress, cgaddress,
                           _modeset>>

-----------------------------------------------------------------------------
(* Reads *)

\* mutant: the auto-reset after the block read is left out
readdata_calls_no_reset(bytes, datanum) ==
    <<writecommand(LCD_SETDATAAUTOREAD), parallel_readdata(bytes, datanum)>>

\* readdata, src/RA6963.py:368-371
readdata_calls(bytes, datanum) ==
    <<writecommand(LCD_SETDATAAUTOREAD), parallel_readdata(bytes, datanum),
      writecommand(LCD_AUTORESET)>>

readdata(bytes, datanum) ==
    Plain("readdata", <<datanum>>, readdata_calls(bytes, datanum), <<>>)

\* readdecrement, src/RA6963.py:374-378: the name LCD_DATAREADDECREMENT is
\* not defined (line 129 defines LCD_DATAEREADDECREMENT), looking it up raises
readdecrement ==
    /\ Done("readdecrement", <<>>, Raise("NameError"), <<>>, FALSE)
    /\ UNCHANGED <<config, exported, _dev, textaddress, graphicaddress, cgaddress,
                   _displaymode, _modeset>>

\* the command, then one byte read into temp
read_calls(command, byte) == <<writecommand(command), parallel_readdata(<<byte>>, 1)>>

\* readincrement, src/RA6963.py:381-385
readincrement(byte) ==
    LET calls == read_calls(LCD_DATAREADINCREMENT, byte)
    IN  Plain("readincrement", <<>>, calls, <<temp0(calls[2])>>)

\* readonvariable, src/RA6963.py:393-397
readonvariable(byte) ==
    LET calls == read_calls(LCD_DATAREADNONVARIABLE, byte)
    IN  Plain("readonvariable", <<>>, calls, <<temp0(calls[2])>>)

\* screenpeek, src/RA6963.py:404-408
screenpeek(byte) ==
    LET calls == read_calls(LCD_SCREENPEEK, byte)
    IN  Plain("screenpeek", <<>>, calls, <<temp0(calls[2])>>)

\* readstatus, src/RA6963.py:388-390: returns what readregister evaluates to
readstatus(value) ==
    Plain("readstatus", <<>>, <<readregister(value)>>, <<value>>)

-----------------------------------------------------------------------------
(* Writes *)

\* writedata, src/RA6963.py:462-465
writedata_calls(datapos, datanum) ==
    <<writecommand(LCD_SETDATAAUTOWRITE), parallel_writedata(datapos, datanum),
      writecommand(LCD_AUTORESET)>>

writedata(datapos, datanum) ==
    Plain("writedata", <<datapos, datanum>>, writedata_calls(datapos, datanum), <<>>)

\* mutant: the opcode is sent before the data byte, as the reads do
write_calls_opcode_first(value, command) ==
    <<writecommand(command), parallel_writedata(<<c_uint8(value)>>, 1)>>

\* one byte (c_uint8 * 1)(value), then the command
write_calls(value, command) ==
    <<parallel_writedata(<<c_uint8(value)>>, 1), writecommand(command)>>

\* writedecrement, src/RA6963.py:468-471
writedecrement(value) ==
    Plain("writedecrement", <<value>>, write_calls(value, LCD_DATAWRITEDECREMENT), <<>>)

\* writeincrement, src/RA6963.py:474-477
writeincrement(value) ==
    Plain("writeincrement", <<value>>, write_calls(value, LCD_DATAWRITEINCREMENT), <<>>)

\* writeonvariable, src/RA6963.py:480-483
writeonvariable(value) ==
    Plain("writeonvariable", <<value>>,
          write_calls(value, LCD_DATAWRITENONVARIABLE), <<>>)

\* writetext, src/RA6963.py:486-494.  text is the sequence of its character
\* codes.  bytearray(str) raises TypeError under Python 3; under Python 2 a
\* character below 32 raises ValueError when 32 is subtracted from it.
writetext_calls(text) ==
    LET stripped == SelectSeq(text, LAMBDA c : c /= 10)
        shifted == [i \in 1..Len(stripped) |-> stripped[i] - 32]
    IN  word_calls(textaddress, LCD_SETADDRESSPOINTER)
        \o <<writecommand(LCD_SETDATAAUTOWRITE),
             parallel_writedata(shifted, Len(shifted)),
             writecommand(LCD_AUTORESET)>>

writetext(text, python) ==
    \E outcome \in OutcomesNow :
        LET stripped == SelectSeq(text, LAMBDA c : c /= 10)
            r == IF python = 3 THEN Raise("TypeError")
                 ELSE IF \E i \in 1..Len(stripped) : stripped[i] < 32
                      THEN Raise("ValueError")
                      ELSE Exec(writetext_calls(text), outcome)
        IN  /\ Done("writetext", <<text>>, r, <<>>, FALSE)
            /\ UNCHANGED <<config, exported, _dev, textaddress, graphicaddress, cgaddress,
                           _displaymode, _modeset>>

-----------------------------------------------------------------------------
(* The methods in any order *)

\* the glyph lists of length at most n
GlyphLists(n) == UNION {[1..m -> Glyphs] : m \in 0..n}

\* every method, each with one choice of arguments
Next ==
    \/ startup
    \/ close
    \/ settexthome(1024)
    \/ setgraphichome(65280)
    \/ texthome
    \/ graphichome
    \/ cghome
    \/ setaddress(1024)
    \/ setcursor(3, 200)
    \/ \E chars \in GlyphLists(MaxGlyphs) : definechars(chars, 1)
    \/ clearall
    \/ bitreset(5)
    \/ bitset(5)
    \/ blinktime(5)
    \/ cgromfont(1)
    \/ cursorpattern(5)
    \/ screencopy
    \/ screenreverse(TRUE)
    \/ cursorblink(TRUE)
    \/ cursordisplay(TRUE)
    \/ displaymode(TRUE, FALSE)
    \/ externalcg(TRUE)
    \/ modeset(2)
    \/ cursormove(TRUE, -1)
    \/ \E n \in 0..MaxData : readdata([i \in 1..n |-> 165], n)
    \/ readdecrement
    \/ readincrement(165)
    \/ readonvariable(165)
    \/ screenpeek(165)
    \/ readstatus(165)
    \/ \E n \in 0..MaxData : writedata([i \in 1..MaxData |-> 165], n)
    \/ writedecrement(165)
    \/ writeincrement(165)
    \/ writeonvariable(165)
    \/ \E text \in Texts, python \in Interpreters : writetext(text, python)
    \/ setbacklight(100)

Init == InitWith({<<512, 8192, 4099>>}, {<<128, 64>>}, RdPins)

Spec == Init /\ [][Next]_vars

-----------------------------------------------------------------------------
(* The address methods, over the constructor's addresses *)

InitAddr == InitWith(Addrs, {<<128, 64>>}, {7})

NextAddr ==
    \/ startup
    \/ \E v \in HomeValues : settexthome(v)
    \/ \E v \in HomeValues : setgraphichome(v)
    \/ texthome
    \/ graphichome
    \/ cghome
    \/ \E v \in HomeValues : setaddress(v)
    \/ \E x \in Coordinates, y \in Coordinates : setcursor(x, y)
    \/ \E chars \in GlyphLists(MaxGlyphs), l \in Locations : definechars(chars, l)

SpecAddr == InitAddr /\ [][NextAddr]_vars

(* The data transfers, on a readable and on a write-only bus *)

InitData == InitWith(Addrs, {<<128, 64>>}, RdPins)

NextData ==
    \/ \E n \in 0..MaxData : \E bytes \in [1..n -> ByteValues] : readdata(bytes, n)
    \/ readdecrement
    \/ \E b \in ByteValues : readincrement(b)
    \/ \E b \in ByteValues : readonvariable(b)
    \/ \E b \in ByteValues : screenpeek(b)
    \/ \E b \in ByteValues : readstatus(b)
    \/ \E n \in 0..MaxData : \E buf \in [1..MaxData -> ByteValues] : writedata(buf, n)
    \/ \E b \in ByteValues : writedecrement(b)
    \/ \E b \in ByteValues : writeincrement(b)
    \/ \E b \in ByteValues : writeonvariable(b)

SpecData == InitData /\ [][NextData]_vars

(* The constructor and the backlight: from the call of the constructor on *)

\* the bl argument of the constructor (-1 is the default)
BlPins == {-1, 5, 12, 19, 28}
\* backlight levels, in hundredths
Backlights == {0, 50, 100}

InitNew ==
    /\ op = [name |-> "new", args |-> <<>>]
    /\ addr \in {<<>>, <<512, 8192, 4099>>}
    /\ _pixx = 128 /\ _pixy = 64
    /\ rd = 7
    /\ dlow = <<22, 23, 24, 25>>
    /\ _bl = -1
    /\ _pwm = FALSE
    /\ pwmchip \in BOOLEAN
    /\ exported \in {{}, {0}}
    /\ _dev = "none"
    /\ _displaymode = 0
    /\ _modeset = 0
    /\ textaddress = 0
    /\ graphicaddress = 0
    /\ cgaddress = 0
    /\ bus = <<>>
    /\ ret = <<>>
    /\ err = "none"
    /\ warned = FALSE
    /\ stale = FALSE
    /\ repeat = FALSE
    /\ pre = fields

NextBacklight ==
    \/ \E bl \in BlPins, b \in Backlights, pwm \in BOOLEAN : __init__(bl, b, pwm)
    \/ \E b \in Backlights : setbacklight(b)
    \/ close
    \/ cursorblink(TRUE)

SpecBacklight == InitNew /\ [][NextBacklight]_vars

(* The write primitives, on an 8-bit and on a 4-bit bus *)

\* d3..d0 of the constructor: all defined, or all undefined
LowPins == {<<22, 23, 24, 25>>, <<-1, -1, -1, -1>>}

InitWidth == InitOpen(Addrs, {<<128, 64>>}, {7}, LowPins)

NextWidth ==
    \/ startup
    \/ \E v \in HomeValues : setaddress(v)
    \/ \E b \in ByteValues : writeincrement(b)
    \/ \E chars \in GlyphLists(MaxGlyphs), l \in Locations : definechars(chars, l)
    \/ \E blink \in BOOLEAN : cursorblink(blink)
    \/ close

SpecWidth == InitWidth /\ [][NextWidth]_vars

(* definechars over the whole range of its location argument *)

\* the addr argument of the constructor
CharAddrs == {<<>>, <<0, 4096, 0>>, <<0, 4096, 63488>>}
\* the location argument of definechars
WideLocations == {-1, 0, 127, 128, 8064}

InitChars == InitWith(CharAddrs, {<<128, 64>>}, {7})

NextChars ==
    \/ \E chars \in GlyphLists(MaxGlyphs), l \in WideLocations : definechars(chars, l)
    \/ cghome

SpecChars == InitChars /\ [][NextChars]_vars

(* The home addresses: set, navigate, start up, close *)

InitHome == InitWith({<<>>, <<512, 8192, 4099>>}, {<<128, 64>>}, {7})

NextHome ==
    \/ \E v \in HomeValues : settexthome(v)
    \/ \E v \in HomeValues : setgraphichome(v)
    \/ texthome
    \/ graphichome
    \/ startup
    \/ close

SpecHome == InitHome /\ [][NextHome]_vars

(* startup over several screens *)

\* the pixx, pixy arguments of the constructor
Screens == {<<128, 64>>, <<240, 128>>, <<2056, 8>>}

InitStartup == InitWith(Addrs, Screens, {7})

NextStartup ==
    \/ startup
    \/ \E v \in HomeValues : settexthome(v)
    \/ \E v \in HomeValues : setgraphichome(v)
    \/ cghome

SpecStartup == InitStartup /\ [][NextStartup]_vars

(* The mode and flag setters *)

InitMode == InitWith({<<>>}, {<<128, 64>>}, {7})

NextMode ==
    \/ \E b \in BOOLEAN : cursorblink(b)
    \/ \E b \in BOOLEAN : cursordisplay(b)
    \/ \E t \in BOOLEAN, g \in BOOLEAN : displaymode(t, g)
    \/ \E b \in BOOLEAN : externalcg(b)
    \/ \E m \in Modes : modeset(m)
    \/ \E b \in BOOLEAN, c \in CommandResults : cursormove(b, c)

SpecMode == InitMode /\ [][NextMode]_vars


-----------------------------------------------------------------------------
(* The character-generator address alone: every row of the 16-bit range *)

CgAddrs == {a \in 0..65535 : a % 2048 \in {0, 1, 3, 8, 1024, 2047}}

InitCg == InitWith({<<0, 4096, a>> : a \in CgAddrs}, {<<128, 64>>}, {7})

NextCg ==
    \/ startup
    \/ cghome

SpecCg == InitCg /\ [][NextCg]_vars

-----------------------------------------------------------------------------
(* Properties *)

\* the last method is name and it ran to its end
Ran(name) == op.name = name /\ err = "none"

\* C1 as stated: startup sends and keeps the text and graphic home addresses
\* the object held when it was called (those of the last settexthome /
\* setgraphichome).
C1_StartupKeepsHeld ==
    Ran("startup") =>
        /\ textaddress = pre.textaddress
        /\ graphicaddress = pre.graphicaddress
        /\ bus[3].buf = <<pre.textaddress % 256, pre.textaddress \div 256>>
        /\ bus[7].buf = <<pre.graphicaddress % 256, pre.graphicaddress \div 256>>

\* C1 (amended): startup sends and stores the addresses the object was
\* constructed with (addr[0], addr[1], or 0x0000 and 0x1000 when addr is
\* None), whatever settexthome / setgraphichome stored before it.
C1_StartupResendsConstructed ==
    Ran("startup") =>
        LET t == IF addr = <<>> THEN 0 ELSE addr[1]
            g == IF addr = <<>> THEN 4096 ELSE addr[2]
        IN  /\ textaddress = t
            /\ graphicaddress = g
            /\ bus[3] = [k |-> "wdata", buf |-> <<t % 256, t \div 256>>, n |-> 2, size |-> 2]
            /\ bus[4] = [v |-> 64, k |-> "cmd"]
            /\ bus[7] = [k |-> "wdata", buf |-> <<g % 256, g \div 256>>, n |-> 2, size |-> 2]
            /\ bus[8] = [v |-> 66, k |-> "cmd"]

\* startup ran after settexthome and setgraphichome had both changed the
\* stored addresses
C1_Witness ==
    /\ Ran("startup")
    /\ pre.textaddress = 1024 /\ textaddress /= 1024
    /\ pre.graphicaddress = 65280 /\ graphicaddress /= 65280

\* C2: when startup is called twice in succession, the second call leaves
\* the stored text, graphic and cg addresses as the first left them and makes
\* the same sequence of calls.
C2_StartupIdempotent ==
    [][(Ran("startup") /\ op'.name = "startup" /\ err' = "none") =>
          /\ textaddress' = textaddress
          /\ graphicaddress' = graphicaddress
          /\ cgaddress' = cgaddress
          /\ bus' = bus]_vars

\* a second startup in a row has run, on an object with custom addresses
\* whose cg address needed rounding
C2_Witness ==
    /\ Ran("startup") /\ repeat
    /\ addr /= <<>> /\ cgaddress /= addr[3]

\* C3: for a configured cg address a in 0..0xFFFF, startup stores a rounded
\* down to a multiple of 0x0800, warns exactly when a is not such a multiple,
\* and sends the stored address divided by 0x0800 as the offset operand.
C3_CgRounding ==
    Ran("startup") =>
        LET a == addr[3]
        IN  /\ cgaddress = a - (a % 2048)
            /\ warned = (a % 2048 /= 0)
            /\ bus[11] = [k |-> "wdata", buf |-> <<cgaddress \div 2048, 0>>, n |-> 2, size |-> 2]
            /\ bus[12] = [v |-> 34, k |-> "cmd"]
            /\ (a = 4099 => cgaddress = 4096 /\ warned)
            /\ (a = 6144 => cgaddress = 6144 /\ ~warned)

\* startup ran with cg address 0x1003: stored 0x1000, with a warning
C3_Witness ==
    /\ Ran("startup")
    /\ addr[3] = 4099 /\ cgaddress = 4096 /\ warned

\* C4: definechars sends the address cg_base + 128*8 + start_index*8 and the
\* set-address-pointer command before the auto-write opcode and before any
\* glyph byte, then each glyph as 8 bytes, most significant byte first
\* (0x7C00 for cg_base 0x7800 and start_index 0).
C4_DefineCharsAddress ==
    Ran("definechars") =>
        LET chars == op.args[1]
            a == cgaddress + 1024 + 8 * op.args[2]
            byte(g, j) == IF j % 2 = 1 THEN g[(j + 1) \div 2] \div 256
                          ELSE g[j \div 2] % 256
        IN  /\ Len(bus) = Len(chars) + 4
            /\ bus[1] = [k |-> "wdata", buf |-> <<a % 256, (a \div 256) % 256>>,
                         n |-> 2, size |-> 2]
            /\ bus[2] = [v |-> 36, k |-> "cmd"]
            /\ bus[3] = [v |-> 176, k |-> "cmd"]
            /\ \A i \in 1..Len(chars) :
                  bus[3 + i] = [k |-> "wdata", buf |-> [j \in 1..8 |-> byte(chars[i], j)],
                                n |-> 8, size |-> 8]
            /\ bus[Len(bus)] = [v |-> 178, k |-> "cmd"]
            /\ (cgaddress = 30720 /\ op.args[2] = 0 => bus[1].buf = <<0, 124>>)
            /\ \A i \in 1..Len(chars) :
                  chars[i] = <<258, 772, 1286, 1800>> =>
                      bus[3 + i].buf = <<1, 2, 3, 4, 5, 6, 7, 8>>

\* definechars ran with cg_base 0x7800 and start_index 0 and wrote the glyph
\* 0x0102030405060708
C4_Witness ==
    /\ Ran("definechars")
    /\ cgaddress = 30720 /\ op.args[2] = 0
    /\ Len(op.args[1]) = 2 /\ op.args[1][2] = <<258, 772, 1286, 1800>>

\* C5 as stated: on a readable bus each of readincrement, readdecrement and
\* readonvariable sends one command with its own read opcode (one that no
\* single-byte write uses), then reads one byte and returns it, without
\* ending in an error.
C5_SingleByteReads ==
    (~WriteOnly /\ op.name \in {"readincrement", "readdecrement", "readonvariable"}) =>
        /\ err = "none"
        /\ Len(bus) = 2
        /\ bus[1].k = "cmd" /\ bus[1].v \notin {192, 194, 196}
        /\ bus[2].k = "rdata" /\ bus[2].n = 1 /\ bus[2].status = "ok"
        /\ ret = <<bus[2].buf[1]>>

\* C6: each of writeincrement, writedecrement and writeonvariable transfers
\* one data byte equal to its argument and only then sends its opcode.
C6_WriteDataThenOpcode ==
    (op.name \in {"writeincrement", "writedecrement", "writeonvariable"}) =>
        /\ err = "none"
        /\ Len(bus) = 2
        /\ bus[1] = [k |-> "wdata", buf |-> <<op.args[1]>>, n |-> 1, size |-> 1]
        /\ bus[2].k = "cmd"
        /\ bus[2].v = (IF op.name = "writeincrement" THEN 192
                       ELSE IF op.name = "writedecrement" THEN 194 ELSE 196)

\* writedecrement(0xA5) has run
C6_Witness == Ran("writedecrement") /\ op.args = <<165>> /\ Len(bus) = 2

\* the auto mode the chip is in after the calls, starting out of auto mode;
\* "bad" once a command other than auto-reset came while in auto mode
AutoAfter(calls) ==
    LET step(mode, c) ==
            IF c.k /= "cmd" \/ mode = "bad" THEN mode
            ELSE IF mode = "none"
                 THEN (IF c.v = 176 THEN "write" ELSE IF c.v = 177 THEN "read" ELSE "none")
                 ELSE (IF c.v = 178 THEN "none" ELSE "bad")
        after[i \in 0..Len(calls)] ==
            IF i = 0 THEN "none" ELSE step(after[i - 1], calls[i])
    IN  after[Len(calls)]

Bit(x, i) == (x \div (2 ^ i)) % 2
Without(x, i) == x - Bit(x, i) * (2 ^ i)

\* C8: cursorblink, cursordisplay and displaymode change only their own
\* bits of the display-mode byte and send 0x90 | byte; externalcg changes only
\* the external-CG bit and modeset only the mode bits of the mode-set byte,
\* each sending 0x80 | byte.
C8_SettersChangeOwnBits ==
    /\ Ran("cursorblink") =>
          /\ Without(_displaymode, 0) = Without(pre._displaymode, 0)
          /\ Bit(_displaymode, 0) = (IF op.args[1] THEN 1 ELSE 0)
    /\ Ran("cursordisplay") =>
          /\ Without(_displaymode, 1) = Without(pre._displaymode, 1)
          /\ Bit(_displaymode, 1) = (IF op.args[1] THEN 1 ELSE 0)
    /\ Ran("displaymode") =>
          /\ Without(Without(_displaymode, 2), 3) = Without(Without(pre._displaymode, 2), 3)
          /\ Bit(_displaymode, 2) = (IF op.args[1] THEN 1 ELSE 0)
          /\ Bit(_displaymode, 3) = (IF op.args[2] THEN 1 ELSE 0)
    /\ (op.name \in {"cursorblink", "cursordisplay", "displaymode"} /\ err = "none") =>
          /\ _modeset = pre._modeset
          /\ Len(bus) = 1 /\ bus[1].k = "cmd"
          /\ \A i \in 0..7 :
                Bit(bus[1].v, i) = (IF i \in {4, 7} THEN 1 ELSE Bit(_displaymode, i))
    /\ Ran("externalcg") =>
          /\ Without(_modeset, 3) = Without(pre._modeset, 3)
          /\ Bit(_modeset, 3) = (IF op.args[1] THEN 1 ELSE 0)
    /\ Ran("modeset") =>
          /\ _modeset - (_modeset % 8) = pre._modeset - (pre._modeset % 8)
          /\ _modeset % 8 = (IF op.args[1] = 1 THEN 0 ELSE IF op.args[1] = 2 THEN 1
                             ELSE IF op.args[1] = 3 THEN 3 ELSE 4)
    /\ (op.name \in {"externalcg", "modeset"} /\ err = "none") =>
          /\ _displaymode = pre._displaymode
          /\ Len(bus) = 1 /\ bus[1].k = "cmd"
          /\ \A i \in 0..7 :
                Bit(bus[1].v, i) = (IF i = 7 THEN 1 ELSE Bit(_modeset, i))

\* cursorblink(False) has cleared the blink flag of a byte with all four
\* flags set
C8_Witness ==
    /\ Ran("cursorblink") /\ op.args = <<FALSE>>
    /\ pre._displaymode = 15 /\ _displaymode = 14

\* the methods that read from the chip
ReadMethods == {"readincrement", "readdecrement", "readonvariable", "readdata",
                "readstatus", "screenpeek"}

\* C9 as stated: on a write-only bus every read method fails with
\* UnsupportedOperation, having changed no pin and transferred no byte.
C9_WriteOnlyReadsFail ==
    (WriteOnly /\ op.name \in ReadMethods) =>
        /\ err = "UnsupportedOperation"
        /\ \A i \in 1..Len(bus) :
              bus[i].k \in {"rdata", "rreg"} /\ bus[i].status = "UnsupportedOperation"

\* C10 as stated: a method called after close has released the handle fails
\* with HandleInvalid and calls no bus primitive on the released handle.
C10_NoUseAfterClose ==
    pre._dev = "released" => (err = "HandleInvalid" /\ ~stale /\ bus = <<>>)

-----------------------------------------------------------------------------
(* The constructor's failures *)

\* C11: on every failing exit of the constructor the bus handle has been
\* released and every PWM channel the constructor exported is unexported again.
C11_FailedConstructionReleases ==
    (op.name = "__init__" /\ err /= "none") =>
        /\ _dev /= "open"
        /\ exported = pre.exported

-----------------------------------------------------------------------------
(* The data width *)

WriteCalls == {i \in 1..Len(bus) : bus[i].k \in {"cmd", "wdata"}}

\* C12: the data width is that of the constructor's data pins for every call:
\* with all eight data pins set each byte of a write goes out in one enable
\* pulse, with the low four unset in two, the high nibble first; no method
\* changes the pins the width comes from.
C12_WidthFixedAtOpen ==
    /\ [](\A i \in WriteCalls :
            LET b == transferred(bus[i])
                p == pulses(bus[i])
            IN  /\ (\A k \in 1..4 : dlow[k] \in 0..27) => p = b
                /\ (\A k \in 1..4 : dlow[k] \notin 0..27) =>
                       /\ Len(p) = 2 * Len(b)
                       /\ \A j \in 1..Len(b) :
                              b[j] = 16 * p[2 * j - 1] + p[2 * j] /\ p[2 * j] < 16)
    /\ [][dlow' = dlow]_vars

C12_Witness ==
    /\ Ran("definechars")
    /\ fourbit
    /\ \E i \in WriteCalls : Len(pulses(bus[i])) = 16 /\ pulses(bus[i])[1] > 0

-----------------------------------------------------------------------------
(* definechars and the predefined characters *)

\* C13 as stated: for every location and glyph list no byte definechars writes
\* lands in [cg_base, cg_base + 1024), the address word and the chip's pointer
\* being 16 bits wide.
C13_PredefinedSlotsKept ==
    Ran("definechars") =>
        LET a == bus[1].buf[1] + 256 * bus[1].buf[2]
        IN  \A j \in 0..(8 * Len(op.args[1]) - 1) :
                ((a + j) - cgaddress) % 65536 >= 1024

-----------------------------------------------------------------------------
(* The display-mode byte *)

\* C14 as stated: the remembered display-mode byte is in 0..0x0F, changes only
\* in cursorblink, cursordisplay and displaymode, so that these send a command
\* in 0x90..0x9F and externalcg and modeset one in 0x80..0x8F.
C14_DisplayModeStaysFlags ==
    /\ _displaymode \in 0..15
    /\ _displaymode /= pre._displaymode =>
           op.name \in {"cursorblink", "cursordisplay", "displaymode"}
    /\ \A i \in 1..Len(bus) :
           bus[i].k = "cmd" =>
               /\ op.name \in {"cursorblink", "cursordisplay", "displaymode"} =>
                      bus[i].v \in 144..159
               /\ op.name \in {"externalcg", "modeset"} => bus[i].v \in 128..143

-----------------------------------------------------------------------------
(* The home addresses *)

\* the two calls that send the word v, low byte first, and then the command
SendsWord(calls, v, command) ==
    /\ Len(calls) = 2
    /\ calls[1].k = "wdata" /\ calls[1].n = 2
    /\ calls[1].buf = <<v % 256, v \div 256>>
    /\ calls[2] = [v |-> command, k |-> "cmd"]

\* C15: settexthome(v) / setgraphichome(v), v in 0..0xFFFF, store v (before
\* sending: also when the send faults) and send it low byte first with
\* opcode 0x40 / 0x42; texthome / graphichome return the stored address and
\* send it low byte first with opcode 0x24; only the setter and startup change
\* the stored address, so texthome after settexthome(v) returns and sends v.
C15_HomeRoundTrip ==
    /\ [](op.name = "settexthome" => textaddress = op.args[1])
    /\ [](op.name = "setgraphichome" => graphicaddress = op.args[1])
    /\ [](Ran("settexthome") => SendsWord(bus, op.args[1], 64))
    /\ [](Ran("setgraphichome") => SendsWord(bus, op.args[1], 66))
    /\ [](Ran("texthome") => ret = <<textaddress>> /\ SendsWord(bus, textaddress, 36))
    /\ [](Ran("graphichome") =>
              ret = <<graphicaddress>> /\ SendsWord(bus, graphicaddress, 36))
    /\ [][op'.name \notin {"settexthome", "startup"} => textaddress' = textaddress]_vars
    /\ [][op'.name \notin {"setgraphichome", "startup"} =>
              graphicaddress' = graphicaddress]_vars
    /\ [][(op.name = "settexthome" /\ op'.name = "texthome" /\ err' = "none") =>
              ret' = <<op.args[1]>> /\ SendsWord(bus', op.args[1], 36)]_vars
    /\ [][(op.name = "setgraphichome" /\ op'.name = "graphichome" /\ err' = "none") =>
              ret' = <<op.args[1]>> /\ SendsWord(bus', op.args[1], 36)]_vars

\* texthome returned 0xFF00 two calls after settexthome(0xFF00)
C15_Witness ==
    /\ Ran("texthome") /\ ret = <<65280>> /\ bus[1].buf = <<0, 255>>
    /\ pre.textaddress = 65280 /\ graphicaddress = 1024
    /\ addr = <<>>

-----------------------------------------------------------------------------
(* The startup sequence *)

\* C16: startup drives the reset line low, then high, then sends five times a
\* two-byte little-endian operand followed by a command, in the order text
\* home, text area, graphic home, graphic area, offset register, and nothing
\* else; both area operands are pixx divided by 8.
C16_StartupSequence ==
    Ran("startup") =>
        LET opcodes == <<64, 65, 66, 67, 34>>
            operands == <<textaddress, _pixx \div 8, graphicaddress, _pixx \div 8,
                          cgaddress \div 2048>>
        IN  /\ Len(bus) = 12
            /\ bus[1] = [v |-> 0, k |-> "gpio"]
            /\ bus[2] = [v |-> 1, k |-> "gpio"]
            /\ \A k \in 1..5 :
                   /\ bus[2 * k + 1].k = "wdata"
                   /\ bus[2 * k + 1].n = 2
                   /\ bus[2 * k + 1].buf = <<operands[k] % 256, operands[k] \div 256>>
                   /\ bus[2 * k + 2] = [v |-> opcodes[k], k |-> "cmd"]

\* startup ran on a screen 2056 pixels wide: both area operands are 0x0101
C16_Witness ==
    /\ Ran("startup") /\ _pixx = 2056
    /\ bus[5].buf = <<1, 1>> /\ bus[9].buf = <<1, 1>>
    /\ addr /= <<>> /\ bus[3].buf = <<0, 2>>

-----------------------------------------------------------------------------
(* The alignment of the cg address *)

\* C17 as stated: a cg address that is a multiple of 8 is stored unchanged
\* with no warning; any other is rounded down to a multiple of 8 with a warning.
C17_AlignedTo8 ==
    (op.name \in {"__init__", "startup"} /\ err = "none") =>
        /\ addr[3] % 8 = 0 => cgaddress = addr[3] /\ ~warned
        /\ addr[3] % 8 /= 0 => cgaddress = addr[3] - (addr[3] % 8) /\ warned

\* C17 amended: the alignment is 0x0800: a multiple of 0x0800 is stored
\* unchanged with no warning, any other address (a multiple of 8 included) is
\* rounded down to a multiple of 0x0800 with a warning.
C17_AlignedTo2048 ==
    (op.name \in {"__init__", "startup"} /\ err = "none") =>
        /\ addr[3] % 2048 = 0 => cgaddress = addr[3] /\ ~warned
        /\ addr[3] % 2048 /= 0 =>
               cgaddress = addr[3] - (addr[3] % 2048) /\ warned

\* startup ran with a cg address that is a multiple of 8 but not of 0x0800
C17_Witness ==
    /\ Ran("startup")
    /\ addr[3] % 8 = 0 /\ addr[3] % 2048 = 8
    /\ cgaddress = addr[3] - 8 /\ warned

-----------------------------------------------------------------------------
(* Block writes and their buffers *)

\* C18 as stated: every block write passes a length no greater than the
\* length of the buffer it is given.
C18_WritesWithinBuffer ==
    \A i \in 1..Len(bus) : bus[i].k = "wdata" => bus[i].n <= bus[i].size

-----------------------------------------------------------------------------
(* The backlight *)

\* the constructor arguments bl, pwm that make the backlight unusable
Unusable(bl, pwm) ==
    \/ bl \notin 0..27
    \/ pwm /\ bl \notin {12, 13, 18, 19}
    \/ pwm /\ ~pwmchip

BacklightCalls == {i \in 1..Len(bus) : bus[i].k \in {"blgpio", "blmode", "file"}}

-----------------------------------------------------------------------------
(* setcursor *)

\* C20: setcursor(x, y) with x, y in 0..255 sends exactly two data bytes, x then
\* y (the word 256*y + x, low byte first), then the command 0x21, nothing else.
C20_SetCursorWord ==
    (Ran("setcursor") /\ op.args[1] \in 0..255 /\ op.args[2] \in 0..255) =>
        /\ Len(bus) = 2
        /\ bus[1].k = "wdata" /\ bus[1].n = 2
        /\ SubSeq(bus[1].buf, 1, 2) = <<op.args[1], op.args[2]>>
        /\ bus[1].buf[1] + 256 * bus[1].buf[2] = 256 * op.args[2] + op.args[1]
        /\ bus[2] = [v |-> 33, k |-> "cmd"]

C20_Witness ==
    /\ Ran("setcursor") /\ op.args = <<3, 200>>
    /\ bus[1].buf[1] = 3 /\ bus[1].buf[2] = 200

=============================================================================
